---- MODULE Spec2Model ----
(***************************************************************************)
(* OCRService (api/app/services/ocr_service.py): extraction of per-page    *)
(* text from PDFs, images and raw byte buffers.                            *)
(*                                                                         *)
(* The rasterizer (pdf2image.convert_from_path), the image library         *)
(* (PIL.Image.open) and the OCR engine (pytesseract.image_to_string) are   *)
(* external; a file's content is modelled by what those libraries make of  *)
(* it: its container format and, per page, the raw text the engine reads   *)
(* off the page or the fact that the engine errors on it.                  *)
(***************************************************************************)
EXTENDS Integers, Sequences, FiniteSets, TLC

VARIABLES lang, fs, call

vars == <<lang, fs, call>>

----------------------------------------------------------------------------
(* Bounds *)

MaxPages == 2
MaxTextLen == 2
NumNames == 2
NumThreads == 2

----------------------------------------------------------------------------
(* Values *)

DefaultLang == "tam"
Langs == {DefaultLang, "eng"}

DefaultDpi == 300
Dpis == {DefaultDpi, 150}

FileTypes == {"pdf", "png", "jpg"}

\* File types of the concurrent specification.
ConcTypes == {"pdf", "png"}

Chars == {"a", " "}
Whitespace == {" "}

Texts == UNION {[1..n -> Chars] : n \in 0..MaxTextLen}

\* A page image: the engine either errors on it or reads `text` off it.
Images == {[bad |-> FALSE, text |-> t] : t \in Texts}
            \cup {[bad |-> TRUE, text |-> <<>>]}

PageSeqs == UNION {[1..n -> Images] : n \in 0..MaxPages}

\* Content of a file (or of a byte buffer).
EmptyData == [fmt |-> "junk", pages |-> <<>>]
PdfDocs == {[fmt |-> "pdf", pages |-> p] : p \in PageSeqs}
ImageDocs == {[fmt |-> "img", pages |-> <<im>>] : im \in Images}
Docs == PdfDocs \cup ImageDocs \cup {EmptyData}

\* Inputs of the concurrent specification.
ConcDocs == {[fmt |-> "pdf", pages |-> <<[bad |-> FALSE, text |-> <<"a">>]>>],
             [fmt |-> "img", pages |-> <<[bad |-> FALSE, text |-> <<>>]>>]}

\* A path: a generated (or caller-chosen) name and its suffix.
NoPath == [name |-> 0 - 1, suffix |-> <<>>]
UserPath == [name |-> 0, suffix |-> <<>>]

\* Outcome of an operation: a returned list or a raised exception.
None == [ok |-> FALSE, val |-> <<>>, err |-> "none"]
Ok(v) == [ok |-> TRUE, val |-> v, err |-> ""]
Fail(e) == [ok |-> FALSE, val |-> <<>>, err |-> e]

\* One call of an external library, as the call's trace records it.
Ev(ev, path, page, l, dpi) ==
    [ev |-> ev, path |-> path, page |-> page, lang |-> l, dpi |-> dpi]

----------------------------------------------------------------------------
(* Pure functions *)

RECURSIVE LStrip(_)
LStrip(s) ==
    IF s = <<>> THEN s
    ELSE IF Head(s) \in Whitespace THEN LStrip(Tail(s)) ELSE s

RECURSIVE RStrip(_)
RStrip(s) ==
    IF s = <<>> THEN s
    ELSE IF s[Len(s)] \in Whitespace THEN RStrip(SubSeq(s, 1, Len(s) - 1)) ELSE s

\* Variant: only leading whitespace is removed.
LStripOnly(s) == LStrip(s)

\* str.strip()
Strip(s) == RStrip(LStrip(s))

\* enumerate(pages, start): the j-th item is (start + j - 1, pages[j]).
Enumerate(pages, start) ==
    [j \in 1..Len(pages) |-> <<start + j - 1, pages[j]>>]

\* f".{file_type}"
Suffix(file_type) == <<".", file_type>>

\* Variant: the file type is not looked at.
RouteAllToImage(file_type) == "extract_text_from_image"

\* The branch of extract_from_bytes taken for file_type.
Route(file_type) ==
    IF file_type = "pdf" THEN "extract_text_from_pdf" ELSE "extract_text_from_image"

\* [(1, text.strip())]
ImageResult(text) == <<<<1, Strip(text)>>>>

\* Variant: the engine's language is hard-wired.
OcrLangFixed(l) == "eng"

\* The language handed to pytesseract.image_to_string.
OcrLang(l) == l

\* Variant: the loop stays on the page it has just recognized.
SamePage(j) == j

\* The loop moves on to the next item of enumerate(pages, start=1).
Advance(j) == j + 1

\* Variant: a name is picked without looking at the directory.
AnyName(suffix) == 1..NumNames

\* Names NamedTemporaryFile may return: it opens with O_EXCL, so a name
\* that exists is passed over.
FreeNames(suffix) ==
    {n \in 1..NumNames : [name |-> n, suffix |-> suffix] \notin DOMAIN fs}

----------------------------------------------------------------------------
(* State *)

NewCall(entry, bytes, file_type, path, dpi) ==
    [entry |-> entry, file_bytes |-> bytes, file_type |-> file_type,
     tmp_name |-> NoPath, tmp_path |-> NoPath,
     path |-> path, dpi |-> dpi,
     pc |-> entry,
     pages |-> <<>>, j |-> 0, results |-> <<>>,
     ret |-> None, out |-> None, trace |-> <<>>]

BytesCalls(docs, types) ==
    {NewCall("extract_from_bytes", b, t, NoPath, 0) : b \in docs, t \in types}

NoFiles == [p \in {} |-> EmptyData]

\* One call; a path-based call finds whatever the caller left at its path.
Init ==
    /\ lang \in Langs
    /\ \/ /\ fs = NoFiles
          /\ call \in [{1} -> BytesCalls(Docs, FileTypes)]
       \/ \E d \in Docs, dpi \in Dpis :
            /\ fs = [p \in {UserPath} |-> d]
            /\ call = [c \in {1} |->
                         NewCall("extract_text_from_pdf", EmptyData, "", UserPath, dpi)]
       \/ \E d \in Docs :
            /\ fs = [p \in {UserPath} |-> d]
            /\ call = [c \in {1} |->
                         NewCall("extract_text_from_image", EmptyData, "", UserPath, 0)]
       \/ /\ fs = NoFiles
          /\ \E e \in {"extract_text_from_pdf", "extract_text_from_image"} :
               call = [c \in {1} |-> NewCall(e, EmptyData, "", UserPath, DefaultDpi)]

\* Several threads inside extract_from_bytes of one service.
InitConc ==
    /\ lang = DefaultLang
    /\ fs = NoFiles
    /\ call \in [1..NumThreads -> BytesCalls(ConcDocs, ConcTypes)]

----------------------------------------------------------------------------
(* Steps of a call *)

Log(cr, e) == [cr EXCEPT !.trace = Append(@, e)]

\* A path-based operation ends with `outcome`: inside extract_from_bytes
\* control passes to the finally clause, otherwise to the caller.
Return(cr, outcome) ==
    IF cr.entry = "extract_from_bytes"
    THEN [cr EXCEPT !.ret = outcome, !.pc = "finally"]
    ELSE [cr EXCEPT !.ret = outcome, !.out = outcome, !.pc = "done"]

\* Variant: a page the engine fails on is skipped.
SkipPage(cr) == [cr EXCEPT !.j = @ + 1, !.pc = "for"]

\* image_to_string raises inside the page loop: nothing catches it.
OnRecognitionError(cr) == Return(cr, Fail("TesseractError"))

\* tempfile.NamedTemporaryFile(suffix=f".{file_type}", delete=False)
NamedTemporaryFile(c) ==
    /\ call[c].pc = "extract_from_bytes"
    /\ \/ \E n \in FreeNames(Suffix(call[c].file_type)) :
            LET p == [name |-> n, suffix |-> Suffix(call[c].file_type)] IN
            /\ fs' = [q \in DOMAIN fs \cup {p} |-> IF q = p THEN EmptyData ELSE fs[q]]
            /\ call' = [call EXCEPT ![c] = [@ EXCEPT !.tmp_name = p, !.pc = "write"]]
       \/ /\ call' = [call EXCEPT ![c] = [@ EXCEPT !.out = Fail("OSError"), !.pc = "done"]]
          /\ fs' = fs
    /\ UNCHANGED lang

\* tmp.write(file_bytes); tmp_path = tmp.name; leaving the with block closes
\* the file and, with delete=False, leaves it in place.
Write(c) ==
    /\ call[c].pc = "write"
    /\ \/ /\ fs' = IF call[c].tmp_name \in DOMAIN fs
                   THEN [fs EXCEPT ![call[c].tmp_name] = call[c].file_bytes]
                   ELSE fs
          /\ call' = [call EXCEPT ![c] =
                        [@ EXCEPT !.tmp_path = call[c].tmp_name, !.pc = "dispatch"]]
       \/ /\ call' = [call EXCEPT ![c] = [@ EXCEPT !.out = Fail("OSError"), !.pc = "done"]]
          /\ fs' = fs
    /\ UNCHANGED lang

\* if file_type == "pdf": ... else: ...
Dispatch(c) ==
    /\ call[c].pc = "dispatch"
    /\ call' = [call EXCEPT ![c] =
                  [@ EXCEPT !.pc = Route(call[c].file_type),
                            !.path = call[c].tmp_path,
                            !.dpi = IF call[c].file_type = "pdf"
                                    THEN DefaultDpi ELSE 0]]
    /\ UNCHANGED <<lang, fs>>

\* pages = convert_from_path(pdf_path, dpi=dpi); results = []
ConvertFromPath(c) ==
    LET cr == Log(call[c], Ev("convert_from_path", call[c].path, 0, "", call[c].dpi)) IN
    /\ call[c].pc = "extract_text_from_pdf"
    /\ call' = [call EXCEPT ![c] =
                  IF cr.path \in DOMAIN fs /\ fs[cr.path].fmt = "pdf"
                  THEN [cr EXCEPT !.pages = fs[cr.path].pages, !.results = <<>>,
                                  !.j = 1, !.pc = "for"]
                  ELSE Return(cr, Fail("PDFPageCountError"))]
    /\ UNCHANGED <<lang, fs>>

\* for i, page in enumerate(pages, start=1): the next item is handed to
\* image_to_string, or the iterator is exhausted and results is returned.
For(c) ==
    /\ call[c].pc = "for"
    /\ call' = [call EXCEPT ![c] =
                  IF call[c].j > Len(call[c].pages)
                  THEN Return(call[c], Ok(call[c].results))
                  ELSE [Log(call[c], Ev("image_to_string", NoPath, call[c].j,
                                        OcrLang(lang), 0))
                          EXCEPT !.pc = "image_to_string"]]
    /\ UNCHANGED <<lang, fs>>

\* image_to_string returns or raises; results.append((i, text.strip()))
ImageToString(c) ==
    LET item == Enumerate(call[c].pages, 1)[call[c].j]
        i == item[1]
        page == item[2]
    IN
    /\ call[c].pc = "image_to_string"
    /\ call' = [call EXCEPT ![c] =
                  IF page.bad
                  THEN OnRecognitionError(call[c])
                  ELSE [Log(call[c], Ev("returned", NoPath, call[c].j, "", 0))
                          EXCEPT !.results = Append(@, <<i, Strip(page.text)>>),
                                 !.j = Advance(@),
                                 !.pc = "for"]]
    /\ UNCHANGED <<lang, fs>>

\* image = Image.open(image_path)
ImageOpen(c) ==
    LET cr == Log(call[c], Ev("Image.open", call[c].path, 0, "", 0)) IN
    /\ call[c].pc = "extract_text_from_image"
    /\ call' = [call EXCEPT ![c] =
                  IF cr.path \in DOMAIN fs /\ fs[cr.path].fmt = "img"
                  THEN [cr EXCEPT !.pages = fs[cr.path].pages, !.pc = "image"]
                  ELSE IF cr.path \in DOMAIN fs
                  THEN Return(cr, Fail("UnidentifiedImageError"))
                  ELSE Return(cr, Fail("FileNotFoundError"))]
    /\ UNCHANGED <<lang, fs>>

\* text = pytesseract.image_to_string(image, lang=self.lang);
\* return [(1, text.strip())]
ImageOcr(c) ==
    LET cr == Log(call[c], Ev("image_to_string", NoPath, 1, OcrLang(lang), 0))
        image == call[c].pages[1]
    IN
    /\ call[c].pc = "image"
    /\ call' = [call EXCEPT ![c] =
                  IF image.bad
                  THEN Return(cr, Fail("TesseractError"))
                  ELSE Return(Log(cr, Ev("returned", NoPath, 1, "", 0)),
                              Ok(ImageResult(image.text)))]
    /\ UNCHANGED <<lang, fs>>

\* finally: os.unlink(tmp_path). When unlink raises, its exception replaces
\* the pending return value or the exception in flight.
Unlink(c) ==
    /\ call[c].pc = "finally"
    /\ \/ /\ call[c].tmp_path \in DOMAIN fs
          /\ fs' = [q \in DOMAIN fs \ {call[c].tmp_path} |-> fs[q]]
          /\ call' = [call EXCEPT ![c] =
                        [Log(@, Ev("unlink", call[c].tmp_path, 0, "", 0))
                           EXCEPT !.out = call[c].ret, !.pc = "done"]]
       \/ /\ fs' = fs
          /\ call' = [call EXCEPT ![c] =
                        [Log(@, Ev("unlink raised", call[c].tmp_path, 0, "", 0))
                           EXCEPT !.out = Fail("OSError"), !.pc = "done"]]
    /\ UNCHANGED lang

Next ==
    \/ \E c \in DOMAIN call : NamedTemporaryFile(c)
    \/ \E c \in DOMAIN call : Write(c)
    \/ \E c \in DOMAIN call : Dispatch(c)
    \/ \E c \in DOMAIN call : ConvertFromPath(c)
    \/ \E c \in DOMAIN call : For(c)
    \/ \E c \in DOMAIN call : ImageToString(c)
    \/ \E c \in DOMAIN call : ImageOpen(c)
    \/ \E c \in DOMAIN call : ImageOcr(c)
    \/ \E c \in DOMAIN call : Unlink(c)

Spec == Init /\ [][Next]_vars

SpecConc == InitConc /\ [][Next]_vars

----------------------------------------------------------------------------
(* What the path-based operations return for a file content, in one step *)

AllPagesGood(d) == \A n \in 1..Len(d.pages) : ~d.pages[n].bad

\* extract_text_from_pdf on a file holding d.
PathPdf(d) ==
    IF d.fmt # "pdf" THEN Fail("PDFPageCountError")
    ELSE IF ~AllPagesGood(d) THEN Fail("TesseractError")
    ELSE Ok([n \in 1..Len(d.pages) |-> <<n, Strip(d.pages[n].text)>>])

\* extract_text_from_image on a file holding d.
PathImage(d) ==
    IF d.fmt # "img" THEN Fail("UnidentifiedImageError")
    ELSE IF d.pages[1].bad THEN Fail("TesseractError")
    ELSE Ok(<<<<1, Strip(d.pages[1].text)>>>>)

\* Writing the bytes to a file and calling the operation for file_type.
PathOutcome(bytes, file_type) ==
    IF file_type = "pdf" THEN PathPdf(bytes) ELSE PathImage(bytes)

----------------------------------------------------------------------------
(* Vocabulary of the properties *)

Calls == DOMAIN call

IsBytes(c) == call[c].entry = "extract_from_bytes"

Done(c) == call[c].pc = "done"

\* The path-based operation running in call c.
Op(c) == IF IsBytes(c) THEN Route(call[c].file_type) ELSE call[c].entry

IsPdfCall(c) ==
    \/ call[c].entry = "extract_text_from_pdf"
    \/ IsBytes(c) /\ call[c].file_type = "pdf"

IsImageCall(c) ==
    \/ call[c].entry = "extract_text_from_image"
    \/ IsBytes(c) /\ call[c].file_type # "pdf"

\* The path-based operation of call c has been entered / has ended.
Entered(c) == \E k \in 1..Len(call[c].trace) :
                 call[c].trace[k].ev \in {"convert_from_path", "Image.open"}
Returned(c) == call[c].ret # None

\* The content of the file the path-based operation of call c is given.
HasSource(c) == IsBytes(c) \/ call[c].path \in DOMAIN fs
Source(c) == IF IsBytes(c) THEN call[c].file_bytes ELSE fs[call[c].path]

IsOcrCall(e) == e.ev = "image_to_string"
IsOcrEvent(e) == e.ev \in {"image_to_string", "returned"}
IsPathOp(e) == e.ev \in {"convert_from_path", "Image.open"}

OcrCalls(c) == SelectSeq(call[c].trace, IsOcrCall)
OcrEvents(c) == SelectSeq(call[c].trace, IsOcrEvent)
PathOps(c) == SelectSeq(call[c].trace, IsPathOp)

\* t is raw without its leading and trailing whitespace.
IsTrimOf(t, raw) ==
    /\ t = <<>> \/ (t[1] \notin Whitespace /\ t[Len(t)] \notin Whitespace)
    /\ \E a, b \in 0..Len(raw) :
         /\ a + b <= Len(raw)
         /\ \A k \in 1..a : raw[k] \in Whitespace
         /\ \A k \in (Len(raw) - b + 1)..Len(raw) : raw[k] \in Whitespace
         /\ Len(t) = Len(raw) - a - b
         /\ \A k \in 1..Len(t) : t[k] = raw[a + k]

UnlinkRaised(c) ==
    /\ call[c].trace # <<>>
    /\ call[c].trace[Len(call[c].trace)].ev = "unlink raised"

----------------------------------------------------------------------------
(* Properties *)

\* The step-by-step operations agree with PathPdf and PathImage on every
\* path-based call.
BigStepAgrees ==
    \A c \in Calls :
        (~IsBytes(c) /\ Done(c)) =>
            call[c].out =
                IF call[c].path \notin DOMAIN fs
                THEN (IF Op(c) = "extract_text_from_pdf"
                      THEN Fail("PDFPageCountError") ELSE Fail("FileNotFoundError"))
                ELSE IF Op(c) = "extract_text_from_pdf"
                THEN PathPdf(fs[call[c].path]) ELSE PathImage(fs[call[c].path])

\* C1: once extract_from_bytes has ended, by a return or by an exception
\* raised at any step, the temporary file it created no longer exists.
NoTempFileRemains ==
    \A c \in Calls :
        (IsBytes(c) /\ Done(c) /\ call[c].tmp_name # NoPath) =>
            call[c].tmp_name \notin DOMAIN fs

\* C2: on a valid PDF of N pages that the engine recognizes without error,
\* extract_text_from_pdf returns N entries, numbered 1..N in order, entry i
\* holding the trimmed text of page i.
PdfPagesInOrder ==
    \A c \in Calls :
        (/\ IsPdfCall(c) /\ Returned(c) /\ HasSource(c)
         /\ Source(c).fmt = "pdf" /\ AllPagesGood(Source(c))) =>
            /\ call[c].ret.ok
            /\ Len(call[c].ret.val) = Len(Source(c).pages)
            /\ \A i \in 1..Len(call[c].ret.val) :
                 /\ call[c].ret.val[i][1] = i
                 /\ IsTrimOf(call[c].ret.val[i][2], Source(c).pages[i].text)

\* C2 witness: a two-page result in which trimming changed a non-blank page.
PdfPagesInOrderWitness ==
    \E c \in Calls :
        /\ IsPdfCall(c) /\ Done(c) /\ HasSource(c)
        /\ call[c].ret.ok /\ Len(call[c].ret.val) >= 2
        /\ \E i \in 1..Len(call[c].ret.val) :
             /\ call[c].ret.val[i][2] # <<>>
             /\ call[c].ret.val[i][2] # Source(c).pages[i].text

FirstBad(d) == CHOOSE k \in 1..Len(d.pages) :
                 d.pages[k].bad /\ \A m \in 1..(k - 1) : ~d.pages[m].bad

\* C3: when the engine errors on page k of a PDF, extract_text_from_pdf
\* ends in that failure with no entries for the caller, and the engine was
\* handed pages 1..k once each and none of the pages after k.
RecognitionFailureAborts ==
    \A c \in Calls :
        (/\ IsPdfCall(c) /\ Returned(c) /\ HasSource(c)
         /\ Source(c).fmt = "pdf" /\ ~AllPagesGood(Source(c))) =>
            /\ call[c].ret = Fail("TesseractError")
            /\ Done(c) => (~call[c].out.ok /\ call[c].out.val = <<>>)
            /\ Len(OcrCalls(c)) = FirstBad(Source(c))
            /\ \A n \in 1..Len(OcrCalls(c)) : OcrCalls(c)[n].page = n

\* C3 witness: the engine failed on page 2 after page 1 had been recognized.
RecognitionFailureAbortsWitness ==
    \E c \in Calls :
        /\ IsPdfCall(c) /\ Done(c) /\ HasSource(c)
        /\ Source(c).fmt = "pdf" /\ ~AllPagesGood(Source(c))
        /\ FirstBad(Source(c)) = 2
        /\ call[c].results # <<>>
        /\ call[c].out = Fail("TesseractError")

\* C4: extract_from_bytes ends as the path-based operation for file_type
\* ends on a file holding the bytes.
StagedSameAsPath ==
    \A c \in Calls :
        (IsBytes(c) /\ Done(c) /\ call[c].tmp_path # NoPath) =>
            call[c].out = PathOutcome(call[c].file_bytes, call[c].file_type)

\* C5: a failure of the dispatched operation reaches the caller of
\* extract_from_bytes unchanged.
DispatchedFailureUnchanged ==
    \A c \in Calls :
        (IsBytes(c) /\ Done(c) /\ Returned(c) /\ ~call[c].ret.ok) =>
            call[c].out = call[c].ret

\* C6: when the dispatched operation succeeded and deleting the temporary
\* file failed, extract_from_bytes still returns the operation's result.
SuccessSurvivesCleanupError ==
    \A c \in Calls :
        (IsBytes(c) /\ Done(c) /\ call[c].ret.ok /\ UnlinkRaised(c)) =>
            call[c].out = call[c].ret

\* Call c holds a temporary file it has not yet tried to delete.
Live(c) == IsBytes(c) /\ call[c].tmp_name # NoPath /\ ~Done(c)

\* C7: concurrent calls of extract_from_bytes hold pairwise distinct
\* temporary files; from the end of its write to its own cleanup a call's
\* file exists and holds that call's bytes, and what the call read from it
\* is what those bytes hold.
OwnTempFile ==
    /\ \A c, d \in Calls :
         (c # d /\ Live(c) /\ Live(d)) => call[c].tmp_name # call[d].tmp_name
    /\ \A c \in Calls :
         (Live(c) /\ call[c].tmp_path # NoPath) =>
            /\ call[c].tmp_path \in DOMAIN fs
            /\ fs[call[c].tmp_path] = call[c].file_bytes
            /\ \A k \in 1..Len(PathOps(c)) : PathOps(c)[k].path = call[c].tmp_path
            /\ call[c].pc \in {"for", "image_to_string", "image"} =>
                 call[c].pages = call[c].file_bytes.pages

\* C7 witness: two calls with the same bytes and file type, each past its
\* read of its staged file, neither cleaned up yet.
OwnTempFileWitness ==
    \E c, d \in Calls :
        /\ c # d
        /\ call[c].file_bytes = call[d].file_bytes
        /\ call[c].file_type = call[d].file_type
        /\ call[c].pc = "finally" /\ call[d].pc = "finally"
        /\ call[c].ret.ok /\ call[d].ret.ok

\* C8: on a valid image extract_text_from_image calls the engine once, with
\* the configured language, and returns the one entry (1, trimmed text).
ImageOneEntry ==
    \A c \in Calls :
        (/\ IsImageCall(c) /\ Returned(c) /\ HasSource(c)
         /\ Source(c).fmt = "img" /\ ~Source(c).pages[1].bad) =>
            /\ call[c].ret.ok
            /\ Len(call[c].ret.val) = 1
            /\ call[c].ret.val[1][1] = 1
            /\ IsTrimOf(call[c].ret.val[1][2], Source(c).pages[1].text)
            /\ Len(OcrCalls(c)) = 1
            /\ OcrCalls(c)[1].lang = lang

\* C8 witness: a blank image whose raw text is whitespace yields (1, "").
ImageOneEntryWitness ==
    \E c \in Calls :
        /\ call[c].entry = "extract_text_from_image" /\ Done(c)
        /\ lang = DefaultLang
        /\ call[c].out = Ok(<<<<1, <<>>>>>>)
        /\ Source(c).pages[1].text # <<>>

\* C9: a call of extract_from_bytes that has staged its bytes holds them in
\* a file whose suffix is "." followed by file_type, and runs one path-based
\* operation, on that file: extract_text_from_pdf when file_type is "pdf",
\* extract_text_from_image for every other file type.
BytesDispatch ==
    \A c \in Calls :
        IsBytes(c) =>
            /\ Len(PathOps(c)) <= 1
            /\ call[c].tmp_path = NoPath => PathOps(c) = <<>>
            /\ call[c].pc = "dispatch" =>
                 /\ call[c].tmp_path.suffix = <<".", call[c].file_type>>
                 /\ call[c].tmp_path \in DOMAIN fs
                 /\ fs[call[c].tmp_path] = call[c].file_bytes
            /\ Returned(c) =>
                 /\ Len(PathOps(c)) = 1
                 /\ PathOps(c)[1].path = call[c].tmp_path
                 /\ PathOps(c)[1].path.suffix = <<".", call[c].file_type>>
                 /\ PathOps(c)[1].ev =
                      IF call[c].file_type = "pdf"
                      THEN "convert_from_path" ELSE "Image.open"
                 /\ call[c].file_type = "pdf" => PathOps(c)[1].dpi = DefaultDpi

\* C9 witness: PDF bytes declared "png" went to the image operation.
BytesDispatchWitness ==
    \E c \in Calls :
        /\ IsBytes(c) /\ Done(c)
        /\ call[c].file_type = "png" /\ call[c].file_bytes.fmt = "pdf"
        /\ call[c].out = Fail("UnidentifiedImageError")

\* C10: in extract_text_from_pdf the engine is called after rasterization,
\* for page 1, then page 2, ..., each call made once, with the configured
\* language, and only after the call before it has returned.
PdfOcrSequential ==
    \A c \in Calls :
        IsPdfCall(c) =>
            /\ \A k \in 1..Len(call[c].trace) :
                 IsOcrCall(call[c].trace[k]) =>
                    \E m \in 1..(k - 1) : call[c].trace[m].ev = "convert_from_path"
            /\ \A k \in 1..Len(OcrEvents(c)) :
                 /\ OcrEvents(c)[k].page = (k + 1) \div 2
                 /\ OcrEvents(c)[k].ev =
                      IF k % 2 = 1 THEN "image_to_string" ELSE "returned"
                 /\ k % 2 = 1 => OcrEvents(c)[k].lang = lang

\* C10 witness: the call for page 2 is in flight, page 1 recognized.
PdfOcrSequentialWitness ==
    \E c \in Calls :
        /\ IsPdfCall(c)
        /\ call[c].pc = "image_to_string"
        /\ call[c].j = 2
        /\ Len(call[c].results) = 1

====
